---- MODULE Spec2Model ----
(***************************************************************************)
(* Auto-forward bot: quota tracking, forwarding dispatch and the           *)
(* subscription/payment state machine, as implemented by the two programs  *)
(* of the repository:                                                      *)
(*   src/bot.py   python-telegram-bot program; state in three in-memory    *)
(*                dicts guarded by the non-reentrant threading.Lock        *)
(*                data_lock; a Flask thread serves the Paystack webhook.   *)
(*   src/main.py  pyrogram program; state in a PostgreSQL database; the    *)
(*                handlers are coroutines of one event loop.               *)
(* impl says which of the two programs runs in a behaviour.                *)
(* Time is in seconds.                                                     *)
(***************************************************************************)
EXTENDS Integers, Sequences, FiniteSets, TLC

(* ---- bounds of the model ---- *)
MaxEvents == 2
MaxTicks == 1
MaxCommands == 11

(* ---- program constants ---- *)
DAILY_LIMIT == 50
MONTHLY_DAYS == 30
DAILY_DAYS == 1
FREE_RULE_LIMIT == 1
RATE_LIMIT_WINDOW == 60
MAX_COMMANDS_PER_WINDOW == 10
None == -1

Day == 24 * 3600
T0 == 100 * Day

UserIds == {"u1", "u2"}
Sources == {"S1", "S2"}
TickSteps == {Day}
RelayOutcomes == {"ok", "blocked", "timeout"}
Dests == {"D3"}
Threads == {"loop", "flask", "t1", "t2"}
Tasks == {"t1", "t2"}

VARIABLES
    impl,               \* "bot": src/bot.py runs; "main": src/main.py runs
    now,                \* datetime.now(), in seconds
    ticks,              \* number of clock advances so far
    events,             \* number of handler invocations so far
    users_data,         \* user id -> user (bot.py dict / main.py table users)
    rules_data,         \* the rules in insertion order
    transactions_data,  \* reference -> transaction
    provider,           \* Paystack: reference -> checkout status and metadata
    data_lock,          \* bot.py: "free" or the thread holding data_lock
    th,                 \* per thread / coroutine: position and locals
    activations,        \* history: reference -> activations performed for it
    relayed,            \* history: rule id -> successful relays (bot.py)
    last_verify,        \* history: outcome of the latest verify request
    notified,           \* history: user -> limit notices sent in the current window
    conv,               \* bot.py: user -> state of the add_forward conversation
    last_reply,         \* history: the latest answer of a rule or command handler
    disk                \* bot.py: contents of the three JSON files

vars == <<impl, now, ticks, events, users_data, rules_data, transactions_data,
          provider, data_lock, th, activations, relayed, last_verify,
          notified, conv, last_reply, disk>>

(* ---- finite maps with a growing domain (dict / table keyed by id) ---- *)
Put(f, k, v) == [x \in DOMAIN f \cup {k} |-> IF x = k THEN v ELSE f[x]]

Count(f, k) == IF k \in DOMAIN f THEN f[k] ELSE 0

Bump(f, k) == Put(f, k, Count(f, k) + 1)

EmptyMap == [x \in {} |-> 0]

(* ---- users ---- *)
NewUserCounted(t) ==
    [is_premium |-> FALSE, subscription_end |-> None,
     daily_messages |-> 1, last_reset |-> t,
     last_command_time |-> t, command_count |-> 0]

NewUser(t) ==
    [is_premium |-> FALSE, subscription_end |-> None,
     daily_messages |-> 0, last_reset |-> t,
     last_command_time |-> t, command_count |-> 0]

IsActivePremiumInclusive(user, t) ==
    /\ user.is_premium
    /\ user.subscription_end # None
    /\ user.subscription_end >= t

IsActivePremium(user, t) ==
    /\ user.is_premium
    /\ user.subscription_end # None
    /\ user.subscription_end > t

WindowExpired(user, t) ==
    /\ user.last_reset # None
    /\ (t - user.last_reset) \div Day >= 1

ResetCountOnly(user, t) ==
    IF WindowExpired(user, t)
    THEN [user EXCEPT !.daily_messages = 0]
    ELSE user

ResetIfExpired(user, t) ==
    IF WindowExpired(user, t)
    THEN [user EXCEPT !.daily_messages = 0, !.last_reset = t]
    ELSE user

OverLimitLate(user) == user.daily_messages > DAILY_LIMIT

OverLimit(user) == user.daily_messages >= DAILY_LIMIT

AfterRelayRefunds(users, uid, outcome) ==
    IF outcome # "ok" /\ uid \in DOMAIN users /\ users[uid].daily_messages > 0
    THEN [users EXCEPT ![uid].daily_messages = @ - 1]
    ELSE users

(* what the handler does to the users after message.forward returned or
   raised: the except branch logs (and bot.py may warn the owner), nothing is
   written *)
AfterRelay(users, uid, outcome) == users

ConsumeLost(user) == user

Consume(user) == [user EXCEPT !.daily_messages = @ + 1]

QuotaCheckMetersPremium(user, t) ==
    LET r == ResetIfExpired(user, t) IN
    IF OverLimit(r)
    THEN [user |-> r, allowed |-> FALSE, consumed |-> FALSE]
    ELSE [user |-> Consume(r), allowed |-> TRUE, consumed |-> TRUE]

QuotaCheckClearsLapsed(user, t) ==
    LET r == ResetIfExpired(user, t) IN
    IF IsActivePremium(r, t)
    THEN [user |-> r, allowed |-> TRUE, consumed |-> FALSE]
    ELSE IF OverLimit(r)
    THEN [user |-> [r EXCEPT !.is_premium = FALSE], allowed |-> FALSE, consumed |-> FALSE]
    ELSE [user |-> [Consume(r) EXCEPT !.is_premium = FALSE],
          allowed |-> TRUE, consumed |-> TRUE]

(* check_message_limit on a stored user: the user as left in the store,
   the boolean it returns, and whether it went on to save_data *)
QuotaCheck(user, t) ==
    LET r == ResetIfExpired(user, t) IN
    IF IsActivePremium(r, t)
    THEN [user |-> r, allowed |-> TRUE, consumed |-> FALSE]
    ELSE IF OverLimit(r)
    THEN [user |-> r, allowed |-> FALSE, consumed |-> FALSE]
    ELSE [user |-> Consume(r), allowed |-> TRUE, consumed |-> TRUE]

CheckMessageLimitCreates(users, uid, t) ==
    LET q == QuotaCheck(IF uid \in DOMAIN users THEN users[uid] ELSE NewUser(t), t) IN
    [users |-> Put(users, uid, q.user), known |-> TRUE,
     allowed |-> q.allowed, consumed |-> q.consumed]

(* check_message_limit of bot.py on the store: an unknown user id is denied
   and nothing is written *)
CheckMessageLimit(users, uid, t) ==
    IF uid \notin DOMAIN users
    THEN [users |-> users, known |-> FALSE, allowed |-> FALSE, consumed |-> FALSE]
    ELSE LET q == QuotaCheck(users[uid], t) IN
         [users |-> [users EXCEPT ![uid] = q.user], known |-> TRUE,
          allowed |-> q.allowed, consumed |-> q.consumed]

PlanDuration(plan_type) ==
    IF plan_type = "daily" THEN DAILY_DAYS * Day ELSE MONTHLY_DAYS * Day

ActivateExtends(user, plan_type, t) ==
    [user EXCEPT !.is_premium = TRUE,
                 !.subscription_end =
                     (IF IsActivePremium(user, t) THEN user.subscription_end ELSE t)
                     + PlanDuration(plan_type)]

Activate(user, plan_type, t) ==
    [user EXCEPT !.is_premium = TRUE, !.subscription_end = t + PlanDuration(plan_type)]

(* ---- rules: an insertion-ordered dict / table, as a sequence ---- *)
Rule(id, uid, src, dst, t) ==
    [rule_id |-> id, user_id |-> uid, source_chat_id |-> src, dest_chat_id |-> dst,
     is_active |-> TRUE, messages_forwarded |-> 0, created_at |-> t]

ActiveRulesBySource(rules, src) ==
    LET Match(r) == r.source_chat_id = src /\ r.is_active IN SelectSeq(rules, Match)

(* get_user_rules: the active rules of a user *)
UserRules(rules, uid) ==
    SelectSeq(rules, LAMBDA r : r.user_id = uid /\ r.is_active)

(* add_forward_start / add_forward_command: the gate of rule creation *)
MayAddRule(user, rules, uid, t) ==
    user.is_premium \/ Len(UserRules(rules, uid)) < FREE_RULE_LIMIT

OwnsRuleAnyone(rule, v) == TRUE

(* delete_forward_handler: the requester is the owner *)
OwnsRule(rule, v) == rule.user_id = v

RuleIds(rules) == {rules[i].rule_id : i \in 1..Len(rules)}

RuleIndex(rules, id) == CHOOSE i \in 1..Len(rules) : rules[i].rule_id = id

(* rules_data[rule_id] = {...}: a new key is appended, an existing key keeps
   its place and gets the new value *)
StoreRule(rules, rule) ==
    IF rule.rule_id \in RuleIds(rules)
    THEN [rules EXCEPT ![RuleIndex(rules, rule.rule_id)] = rule]
    ELSE Append(rules, rule)

(* ---- payments ---- *)
Transaction(uid, plan_type) ==
    [user_id |-> uid, plan_type |-> plan_type, status |-> "pending", payment_date |-> None]

ProviderAcceptsDuplicate(prov, ref, resp) == resp # "fail"

(* transaction/initialize answers 200: the request went through and the
   provider holds no checkout under this reference (it refuses a reference
   it has seen) *)
ProviderAccepts(prov, ref, resp) == resp # "fail" /\ ref \notin DOMAIN prov

(* what the provider answered: "ok" is 200 with the checkout URL, "nodata"
   is 200 with a body that has no data.authorization_url, "duplicate" and
   "fail" are not 200 *)
IssueResponse(prov, ref, resp) ==
    IF resp = "fail" THEN "fail"
    ELSE IF ref \in DOMAIN prov THEN "duplicate" ELSE resp

(* verify_payment: (True, payer) only when the provider answers 200 and
   reports the reference as settled *)
VerifyPaymentAnyStatus(prov, ref, resp) ==
    IF resp = "ok" /\ ref \in DOMAIN prov
    THEN [success |-> TRUE, user_id |-> prov[ref].user_id]
    ELSE [success |-> FALSE, user_id |-> "-"]

VerifyPayment(prov, ref, resp) ==
    IF resp = "ok" /\ ref \in DOMAIN prov /\ prov[ref].status = "success"
    THEN [success |-> TRUE, user_id |-> prov[ref].user_id]
    ELSE [success |-> FALSE, user_id |-> "-"]

VerifyAcceptedAnyPayer(prov, ref, resp, requester) ==
    VerifyPayment(prov, ref, resp).success

VerifyAccepted(prov, ref, resp, requester) ==
    LET v == VerifyPayment(prov, ref, resp) IN v.success /\ v.user_id = requester

(* ---- threads ---- *)
Idle == [pc |-> "idle", user |-> "-", ref |-> <<>>, plan |-> "-", src |-> "-",
         rules |-> <<>>, idx |-> 0, slot |-> 0, win |-> None]

(* what a thread keeps of an allowed quota call: the counter value the call
   took (0 when it consumed nothing) and the window it was taken in *)
Grant(thr, q) ==
    [thr EXCEPT !.slot = IF q.consumed THEN q.user.daily_messages ELSE 0,
                !.win = q.user.last_reset]

NoVerify == [result |-> "none"]

(* ConversationHandler.END: no add_forward conversation is open *)
ConvEnd == [state |-> "END", source_chat_id |-> "-"]

NoReply == [op |-> "none"]

(* limit notices sent to a user in the current quota window: none, one, or
   more than one *)
NoNotice == [u \in UserIds |-> "none"]

Notice(n, uid) == [n EXCEPT ![uid] = IF @ = "none" THEN "once" ELSE "again"]

(* the notices counted so far belong to the window that check_message_limit
   closes when it resets the counter *)
NewWindow(n, users, uid, t) ==
    IF uid \in DOMAIN users /\ WindowExpired(users[uid], t)
    THEN [n EXCEPT ![uid] = "none"] ELSE n

(* history of a verify request: refused, or accepted for (user, ref) at time t
   while the stored Transaction was pending / missing / already success *)
VerifyOutcome(prov, txns, ref, resp, v, t) ==
    IF VerifyAccepted(prov, ref, resp, v)
    THEN [result |-> "accepted", user |-> v, ref |-> ref, time |-> t,
          stored |-> IF ref \in DOMAIN txns THEN txns[ref].status ELSE "missing"]
    ELSE [result |-> IF VerifyPayment(prov, ref, resp).success
                     THEN "refused_payer" ELSE "refused_unsettled",
          user |-> v, ref |-> ref]

Ord(t) == IF t = "t1" THEN 1 ELSE 2

AllRefs == DOMAIN transactions_data \cup DOMAIN provider

NextRuleRetry(thr) == [thr EXCEPT !.pc = "forward"]

(* the for loop goes on to the next matched rule, or the handler returns *)
NextRule(thr) ==
    IF thr.idx < Len(thr.rules)
    THEN [Idle EXCEPT !.pc = "check", !.src = thr.src, !.rules = thr.rules,
                      !.idx = thr.idx + 1]
    ELSE Idle

(* ---- the state after start-up: what load_data / the database hold ---- *)
InitUser1 ==
    {[NewUser(T0) EXCEPT !.daily_messages = d] : d \in {0, DAILY_LIMIT - 1, DAILY_LIMIT}}
    \cup {[NewUser(T0) EXCEPT !.daily_messages = DAILY_LIMIT - 1,
                              !.is_premium = TRUE,
                              !.subscription_end = e] : e \in {T0 + 2 * Day, T0 - Day}}

RuleA == Rule(<<T0 - 120, "u1">>, "u1", "S1", "D1", T0 - 120)

RuleB == Rule(<<T0 - 90, "u2">>, "u2", "S1", "D2", T0 - 90)

(* a settled checkout of the same Paystack account that this program's
   store holds no Transaction for; its metadata names u2 *)
RefX == <<"SUB", "u2", T0 - 3600>>

InitRef(program, plan) ==
    <<IF program = "main" THEN "SUB" ELSE IF plan = "daily" THEN "DAILY" ELSE "MONTHLY",
      "u1", T0 - 60>>

ProviderX == [r \in {RefX} |-> [status |-> "success", user_id |-> "u2"]]

Init ==
    /\ impl \in {"bot", "main"}
    /\ now = T0
    /\ ticks = 0
    /\ events = 0
    /\ \E u1 \in InitUser1, withU2 \in BOOLEAN :
          users_data = IF withU2
                       THEN [u \in {"u1", "u2"} |-> IF u = "u1" THEN u1 ELSE NewUser(T0)]
                       ELSE [u \in {"u1"} |-> u1]
    /\ rules_data = IF impl = "main" /\ "u2" \notin DOMAIN users_data
                    THEN <<RuleA>> ELSE <<RuleA, RuleB>>
    /\ \E plan \in {"none", "monthly", "daily"} :
          /\ plan = "daily" => impl = "bot"
          /\ transactions_data =
                IF plan = "none" THEN EmptyMap
                ELSE [r \in {InitRef(impl, plan)} |-> Transaction("u1", plan)]
          /\ provider =
                IF plan = "none" THEN ProviderX
                ELSE Put(ProviderX, InitRef(impl, plan),
                         [status |-> "abandoned", user_id |-> "u1"])
    /\ data_lock = "free"
    /\ th = [t \in Threads |-> Idle]
    /\ activations = EmptyMap
    /\ relayed = EmptyMap
    /\ last_verify = NoVerify
    /\ notified = NoNotice
    /\ conv = [u \in UserIds |-> ConvEnd]
    /\ last_reply = NoReply
    /\ disk = [users |-> users_data, rules |-> rules_data, transactions |-> transactions_data]

(* ---- environment ---- *)
Tick(d) ==
    /\ ticks < MaxTicks
    /\ now' = now + d
    /\ ticks' = ticks + 1
    /\ UNCHANGED <<impl, events, users_data, rules_data, transactions_data, provider,
                   data_lock, th, activations, relayed, last_verify>>
    /\ UNCHANGED <<notified, conv, last_reply, disk>>

(* the payer completes the checkout at the provider *)
ProviderSettle(ref) ==
    /\ ref \in DOMAIN provider
    /\ provider[ref].status = "abandoned"
    /\ provider' = [provider EXCEPT ![ref].status = "success"]
    /\ UNCHANGED <<impl, now, ticks, events, users_data, rules_data, transactions_data,
                   data_lock, th, activations, relayed, last_verify>>
    /\ UNCHANGED <<notified, conv, last_reply, disk>>

(* ================= src/main.py ================= *)

MainStart(u) ==
    /\ impl = "main"
    /\ events < MaxEvents
    /\ events' = events + 1
    /\ users_data' = IF u \in DOMAIN users_data THEN users_data
                     ELSE Put(users_data, u, NewUser(now))
    /\ UNCHANGED <<impl, now, ticks, rules_data, transactions_data, provider,
                   data_lock, th, activations, relayed, last_verify>>
    /\ UNCHANGED <<notified, conv, last_reply, disk>>

MainPay(u, resp) ==
    LET ref == <<"SUB", u, now>>
        accepted == ProviderAccepts(provider, ref, resp)
        stored == accepted /\ u \in DOMAIN users_data /\ ref \notin DOMAIN transactions_data
    IN
    /\ impl = "main"
    /\ events < MaxEvents
    /\ events' = events + 1
    /\ provider' = IF accepted
                    THEN Put(provider, ref, [status |-> "abandoned", user_id |-> u])
                    ELSE provider
    /\ transactions_data' = IF stored
                             THEN Put(transactions_data, ref, Transaction(u, "monthly"))
                             ELSE transactions_data
    /\ last_reply' = [op |-> "pay", user |-> u, response |-> IssueResponse(provider, ref, resp),
                      result |-> IF ~accepted THEN "failed"
                                 ELSE IF stored /\ resp = "ok" THEN "url" ELSE "raised"]
    /\ UNCHANGED <<impl, now, ticks, users_data, rules_data, data_lock, th,
                   activations, relayed, last_verify>>
    /\ UNCHANGED <<notified, conv, disk>>

MainVerify(v, ref, resp) ==
    /\ impl = "main"
    /\ events < MaxEvents
    /\ ref \in AllRefs
    /\ events' = events + 1
    /\ last_verify' = VerifyOutcome(provider, transactions_data, ref, resp, v, now)
    /\ IF VerifyAccepted(provider, ref, resp, v)
       THEN /\ users_data' = IF v \in DOMAIN users_data
                             THEN [users_data EXCEPT ![v] = Activate(@, "monthly", now)]
                             ELSE users_data
            /\ activations' = IF v \in DOMAIN users_data THEN Bump(activations, ref)
                              ELSE activations
            /\ transactions_data' =
                  IF ref \in DOMAIN transactions_data
                  THEN [transactions_data EXCEPT ![ref].status = "success"]
                  ELSE transactions_data
       ELSE UNCHANGED <<users_data, activations, transactions_data>>
    /\ UNCHANGED <<impl, now, ticks, rules_data, provider, data_lock, th, relayed>>
    /\ UNCHANGED <<notified, conv, last_reply, disk>>

MainDispatch(t, src) ==
    LET rules == ActiveRulesBySource(rules_data, src) IN
    /\ impl = "main"
    /\ events < MaxEvents
    /\ th[t].pc = "idle"
    /\ \A o \in Tasks : th[o].pc = "idle" => Ord(t) <= Ord(o)
    /\ events' = events + 1
    /\ th' = IF rules = <<>> THEN th
             ELSE [th EXCEPT ![t] = [Idle EXCEPT !.pc = "check", !.rules = rules, !.idx = 1]]
    /\ UNCHANGED <<impl, now, ticks, users_data, rules_data, transactions_data, provider,
                   data_lock, activations, relayed, last_verify>>
    /\ UNCHANGED <<notified, conv, last_reply, disk>>

MainCheck(t) ==
    LET uid == th[t].rules[th[t].idx].user_id IN
    /\ impl = "main"
    /\ th[t].pc = "check"
    /\ IF uid \notin DOMAIN users_data
       THEN /\ th' = [th EXCEPT ![t] = Idle]
            /\ UNCHANGED users_data
       ELSE LET q == QuotaCheck(users_data[uid], now) IN
            /\ users_data' = [users_data EXCEPT ![uid] = q.user]
            /\ th' = [th EXCEPT ![t] =
                        IF q.allowed
                        THEN Grant([@ EXCEPT !.pc = "forward", !.user = uid], q)
                        ELSE [@ EXCEPT !.pc = "notify", !.user = uid]]
    /\ UNCHANGED <<impl, now, ticks, events, rules_data, transactions_data, provider,
                   data_lock, activations, relayed, last_verify>>
    /\ notified' = NewWindow(notified, users_data, uid, now)
    /\ UNCHANGED <<conv, last_reply, disk>>

MainNotify(t, sent) ==
    /\ impl = "main"
    /\ th[t].pc = "notify"
    /\ notified' = IF sent THEN Notice(notified, th[t].user) ELSE notified
    /\ th' = [th EXCEPT ![t] = NextRule(@)]
    /\ UNCHANGED <<impl, now, ticks, events, users_data, rules_data, transactions_data,
                   provider, data_lock, activations, relayed, last_verify>>
    /\ UNCHANGED <<conv, last_reply, disk>>

MainForward(t, outcome) ==
    /\ impl = "main"
    /\ th[t].pc = "forward"
    /\ outcome \in RelayOutcomes
    /\ th' = [th EXCEPT ![t] = NextRule(@)]
    /\ users_data' = AfterRelay(users_data, th[t].user, outcome)
    /\ UNCHANGED <<impl, now, ticks, events, rules_data, transactions_data,
                   provider, data_lock, activations, relayed, last_verify>>
    /\ UNCHANGED <<notified, conv, last_reply, disk>>

(* ================= src/bot.py ================= *)

(* a lock section entered by thread t: data_lock.acquire() returns only
   while no thread holds the lock *)
CanAcquire == data_lock = "free"

(* save_data called inside "with data_lock": the caller holds the lock and
   waits for it again in save_data's own "with data_lock" *)
EnterSaveData(t) ==
    /\ data_lock' = t
    /\ th' = [th EXCEPT ![t].pc = "save_data"]

(* button_callback, data == "start": get_or_create_user *)
BotStart(u) ==
    /\ impl = "bot"
    /\ events < MaxEvents
    /\ th["loop"].pc = "idle"
    /\ events' = events + 1
    /\ th' = [th EXCEPT !["loop"] = [Idle EXCEPT !.pc = "start_lock", !.user = u]]
    /\ UNCHANGED <<impl, now, ticks, users_data, rules_data, transactions_data, provider,
                   data_lock, activations, relayed, last_verify>>
    /\ UNCHANGED <<notified, conv, last_reply, disk>>

BotGetOrCreateUser ==
    LET u == th["loop"].user IN
    /\ impl = "bot"
    /\ th["loop"].pc = "start_lock"
    /\ CanAcquire
    /\ IF u \notin DOMAIN users_data
       THEN /\ users_data' = Put(users_data, u, NewUser(now))
            /\ EnterSaveData("loop")
       ELSE /\ th' = [th EXCEPT !["loop"] = Idle]
            /\ UNCHANGED <<users_data, data_lock>>
    /\ UNCHANGED <<impl, now, ticks, events, rules_data, transactions_data, provider,
                   activations, relayed, last_verify>>
    /\ UNCHANGED <<notified, conv, last_reply, disk>>

(* handle_payment -> generate_payment_link: the request to the provider *)
BotPay(u, plan, resp) ==
    LET ref == <<IF plan = "daily" THEN "DAILY" ELSE "MONTHLY", u, now>> IN
    /\ impl = "bot"
    /\ events < MaxEvents
    /\ th["loop"].pc = "idle"
    /\ events' = events + 1
    /\ IF ProviderAccepts(provider, ref, resp)
       THEN /\ provider' = Put(provider, ref, [status |-> "abandoned", user_id |-> u])
            /\ th' = [th EXCEPT !["loop"] =
                        [Idle EXCEPT !.pc = "pay_lock", !.user = u, !.ref = ref, !.plan = plan]]
            /\ UNCHANGED last_reply
       ELSE /\ last_reply' = [op |-> "pay", user |-> u,
                              response |-> IssueResponse(provider, ref, resp),
                              result |-> "failed"]
            /\ UNCHANGED <<provider, th>>
    /\ UNCHANGED <<impl, now, ticks, users_data, rules_data, transactions_data,
                   data_lock, activations, relayed, last_verify>>
    /\ UNCHANGED <<notified, conv, disk>>

(* generate_payment_link: the Transaction is stored, then save_data *)
BotPayStore ==
    /\ impl = "bot"
    /\ th["loop"].pc = "pay_lock"
    /\ CanAcquire
    /\ transactions_data' =
          Put(transactions_data, th["loop"].ref, Transaction(th["loop"].user, th["loop"].plan))
    /\ EnterSaveData("loop")
    /\ UNCHANGED <<impl, now, ticks, events, users_data, rules_data, provider,
                   activations, relayed, last_verify>>
    /\ UNCHANGED <<notified, conv, last_reply, disk>>

(* button_callback, data == "verify_<reference>": verify_payment *)
BotVerify(v, ref, resp) ==
    /\ impl = "bot"
    /\ events < MaxEvents
    /\ th["loop"].pc = "idle"
    /\ ref \in AllRefs
    /\ events' = events + 1
    /\ last_verify' = VerifyOutcome(provider, transactions_data, ref, resp, v, now)
    /\ th' = IF VerifyAccepted(provider, ref, resp, v)
             THEN [th EXCEPT !["loop"] = [Idle EXCEPT !.pc = "verify_plan", !.user = v, !.ref = ref]]
             ELSE th
    /\ UNCHANGED <<impl, now, ticks, users_data, rules_data, transactions_data, provider,
                   data_lock, activations, relayed>>
    /\ UNCHANGED <<notified, conv, last_reply, disk>>

BotVerifyPlan ==
    LET ref == th["loop"].ref IN
    /\ impl = "bot"
    /\ th["loop"].pc = "verify_plan"
    /\ CanAcquire
    /\ th' = [th EXCEPT !["loop"].pc = "verify_activate",
                        !["loop"].plan = IF ref \in DOMAIN transactions_data
                                         THEN transactions_data[ref].plan_type
                                         ELSE "monthly"]
    /\ UNCHANGED <<impl, now, ticks, events, users_data, rules_data, transactions_data,
                   provider, data_lock, activations, relayed, last_verify>>
    /\ UNCHANGED <<notified, conv, last_reply, disk>>

(* activate_premium called from the verify branch *)
BotVerifyActivate ==
    LET v == th["loop"].user IN
    /\ impl = "bot"
    /\ th["loop"].pc = "verify_activate"
    /\ CanAcquire
    /\ IF v \in DOMAIN users_data
       THEN /\ users_data' = [users_data EXCEPT ![v] = Activate(@, th["loop"].plan, now)]
            /\ activations' = Bump(activations, th["loop"].ref)
            /\ EnterSaveData("loop")
       ELSE /\ th' = [th EXCEPT !["loop"].pc = "verify_mark"]
            /\ UNCHANGED <<users_data, activations, data_lock>>
    /\ UNCHANGED <<impl, now, ticks, events, rules_data, transactions_data, provider, relayed, last_verify>>
    /\ UNCHANGED <<notified, conv, last_reply, disk>>

BotVerifyMark ==
    LET ref == th["loop"].ref IN
    /\ impl = "bot"
    /\ th["loop"].pc = "verify_mark"
    /\ CanAcquire
    /\ IF ref \in DOMAIN transactions_data
       THEN /\ transactions_data' = [transactions_data EXCEPT ![ref].status = "success",
                                                              ![ref].payment_date = now]
            /\ EnterSaveData("loop")
       ELSE /\ th' = [th EXCEPT !["loop"] = Idle]
            /\ UNCHANGED <<transactions_data, data_lock>>
    /\ UNCHANGED <<impl, now, ticks, events, users_data, rules_data, provider,
                   activations, relayed, last_verify>>
    /\ UNCHANGED <<notified, conv, last_reply, disk>>

(* paystack_webhook on a Flask request thread *)
Webhook(ref, event) ==
    /\ impl = "bot"
    /\ events < MaxEvents
    /\ th["flask"].pc = "idle"
    /\ events' = events + 1
    /\ th' = IF event = "charge.success"
             THEN [th EXCEPT !["flask"] = [Idle EXCEPT !.pc = "webhook_lock", !.ref = ref]]
             ELSE th
    /\ UNCHANGED <<impl, now, ticks, users_data, rules_data, transactions_data, provider,
                   data_lock, activations, relayed, last_verify>>
    /\ UNCHANGED <<notified, conv, last_reply, disk>>

(* "with data_lock:" of the webhook; for a known reference it calls
   activate_premium, whose own "with data_lock:" waits for the lock the
   thread already holds *)
WebhookLocked ==
    LET ref == th["flask"].ref IN
    /\ impl = "bot"
    /\ th["flask"].pc = "webhook_lock"
    /\ CanAcquire
    /\ IF ref \in DOMAIN transactions_data
       THEN /\ data_lock' = "flask"
            /\ th' = [th EXCEPT !["flask"].pc = "activate_lock",
                                !["flask"].user = transactions_data[ref].user_id,
                                !["flask"].plan = transactions_data[ref].plan_type]
       ELSE /\ th' = [th EXCEPT !["flask"] = Idle]
            /\ UNCHANGED data_lock
    /\ UNCHANGED <<impl, now, ticks, events, users_data, rules_data, transactions_data,
                   provider, activations, relayed, last_verify>>
    /\ UNCHANGED <<notified, conv, last_reply, disk>>

(* forward_message_handler *)
BotDispatch(src) ==
    /\ impl = "bot"
    /\ events < MaxEvents
    /\ th["loop"].pc = "idle"
    /\ events' = events + 1
    /\ th' = [th EXCEPT !["loop"] = [Idle EXCEPT !.pc = "rules_lock", !.src = src]]
    /\ UNCHANGED <<impl, now, ticks, users_data, rules_data, transactions_data, provider,
                   data_lock, activations, relayed, last_verify>>
    /\ UNCHANGED <<notified, conv, last_reply, disk>>

BotGetRules ==
    LET rules == ActiveRulesBySource(rules_data, th["loop"].src) IN
    /\ impl = "bot"
    /\ th["loop"].pc = "rules_lock"
    /\ CanAcquire
    /\ th' = IF rules = <<>> THEN [th EXCEPT !["loop"] = Idle]
             ELSE [th EXCEPT !["loop"].pc = "check", !["loop"].rules = rules, !["loop"].idx = 1]
    /\ UNCHANGED <<impl, now, ticks, events, users_data, rules_data, transactions_data,
                   provider, data_lock, activations, relayed, last_verify>>
    /\ UNCHANGED <<notified, conv, last_reply, disk>>

BotCheck ==
    LET uid == th["loop"].rules[th["loop"].idx].user_id
        c == CheckMessageLimit(users_data, uid, now)
        at(pc) == [th["loop"] EXCEPT !.pc = pc, !.user = uid]
    IN
    /\ impl = "bot"
    /\ th["loop"].pc = "check"
    /\ CanAcquire
    /\ users_data' = c.users
    /\ IF c.consumed
       THEN /\ data_lock' = "loop"
            /\ th' = [th EXCEPT !["loop"] = Grant(at("save_data"), [user |-> c.users[uid], consumed |-> TRUE])]
       ELSE /\ th' = [th EXCEPT !["loop"] =
                        IF c.allowed
                        THEN Grant(at("forward"), [user |-> c.users[uid], consumed |-> FALSE])
                        ELSE at("notify")]
            /\ UNCHANGED data_lock
    /\ UNCHANGED <<impl, now, ticks, events, rules_data, transactions_data, provider,
                   activations, relayed, last_verify>>
    /\ notified' = NewWindow(notified, users_data, uid, now)
    /\ UNCHANGED <<conv, last_reply, disk>>

(* the denied branch: one notification when the counter is exactly 50 *)
BotNotify(sent) ==
    LET uid == th["loop"].user IN
    /\ impl = "bot"
    /\ th["loop"].pc = "notify"
    /\ CanAcquire
    /\ users_data' =
          IF uid \in DOMAIN users_data /\ users_data[uid].daily_messages = DAILY_LIMIT /\ sent
          THEN [users_data EXCEPT ![uid].daily_messages = @ + 1]
          ELSE users_data
    /\ notified' =
          IF uid \in DOMAIN users_data /\ users_data[uid].daily_messages = DAILY_LIMIT /\ sent
          THEN Notice(notified, uid)
          ELSE notified
    /\ th' = [th EXCEPT !["loop"] = NextRule(@)]
    /\ UNCHANGED <<impl, now, ticks, events, rules_data, transactions_data, provider,
                   data_lock, activations, relayed, last_verify>>
    /\ UNCHANGED <<conv, last_reply, disk>>

DisableOnBlocked(rules, id, outcome) ==
    [i \in 1..Len(rules) |->
        IF rules[i].rule_id = id /\ outcome = "blocked"
        THEN [rules[i] EXCEPT !.is_active = FALSE] ELSE rules[i]]

(* what the handler does to the rules when message.forward raised: it logs
   and, for a blocked bot or a missing chat, warns the owner *)
RelayFailed(rules, id, outcome) == rules

BotForward(outcome) ==
    /\ impl = "bot"
    /\ th["loop"].pc = "forward"
    /\ IF outcome = "ok"
       THEN /\ relayed' = Bump(relayed, th["loop"].rules[th["loop"].idx].rule_id)
            /\ th' = [th EXCEPT !["loop"].pc = "record"]
            /\ UNCHANGED rules_data
       ELSE /\ th' = [th EXCEPT !["loop"] = NextRule(@)]
            /\ rules_data' = RelayFailed(rules_data,
                                 th["loop"].rules[th["loop"].idx].rule_id, outcome)
            /\ UNCHANGED relayed
    /\ users_data' = AfterRelay(users_data, th["loop"].user, outcome)
    /\ UNCHANGED <<impl, now, ticks, events, transactions_data,
                   provider, data_lock, activations, last_verify>>
    /\ UNCHANGED <<notified, conv, last_reply, disk>>

(* the stored rule is found again by comparing its fields with the copy's *)
RuleVal(r) == [r EXCEPT !.rule_id = <<>>]

IndexOf(rules, copy) ==
    LET hits == {i \in 1..Len(rules) : RuleVal(rules[i]) = RuleVal(copy)} IN
    IF hits = {} THEN 0 ELSE CHOOSE i \in hits : \A j \in hits : i <= j

BotRecord ==
    LET i == IndexOf(rules_data, th["loop"].rules[th["loop"].idx]) IN
    /\ impl = "bot"
    /\ th["loop"].pc = "record"
    /\ CanAcquire
    /\ IF i = 0
       THEN /\ th' = [th EXCEPT !["loop"] = NextRule(@)]
            /\ UNCHANGED <<rules_data, data_lock>>
       ELSE /\ rules_data' = [rules_data EXCEPT ![i].messages_forwarded = @ + 1]
            /\ EnterSaveData("loop")
    /\ UNCHANGED <<impl, now, ticks, events, users_data, transactions_data, provider,
                   activations, relayed, last_verify>>
    /\ UNCHANGED <<notified, conv, last_reply, disk>>

(* ---- rules: creation workflow and deletion (bot.py) ---- *)

(* /add_forward (the entry of the conversation) or the add_forward button
   (the same function, called outside the conversation) *)
BotAddForwardStart(u, via) ==
    /\ impl = "bot"
    /\ events < MaxEvents
    /\ th["loop"].pc = "idle"
    /\ via = "command" => conv[u].state = "END"
    /\ events' = events + 1
    /\ IF u \notin DOMAIN users_data
       THEN /\ th' = [th EXCEPT !["loop"] = [Idle EXCEPT !.pc = "start_lock", !.user = u]]
            /\ UNCHANGED <<conv, last_reply>>
       ELSE /\ CanAcquire
            /\ LET ok == MayAddRule(users_data[u], rules_data, u, now) IN
               /\ last_reply' = [op |-> "add_forward", user |-> u,
                                 result |-> IF ok THEN "ask_source" ELSE "limit"]
               /\ conv' = IF ok /\ via = "command"
                          THEN [conv EXCEPT ![u] = [state |-> "SOURCE", source_chat_id |-> "-"]]
                          ELSE conv
            /\ UNCHANGED th
    /\ UNCHANGED <<impl, now, ticks, users_data, rules_data, transactions_data, provider,
                   data_lock, activations, relayed, last_verify, notified, disk>>

(* what the handler finds out about the chat it was sent: the bot's member
   status in it, or that get_chat / get_chat_member raised, or that the text
   is neither @name nor a number *)
ChatChecks == {"administrator", "creator", "member", "unreachable", "bad_format"}

BotIsAdminOrMember(status) == status \in {"administrator", "creator", "member"}

(* member.status not in ['administrator', 'creator'] *)
BotIsAdmin(status) == status \in {"administrator", "creator"}

(* source_chat_received: a chat the bot administers is kept as the source;
   anything else asks again *)
BotSourceReceived(u, src, status) ==
    LET valid == BotIsAdmin(status) IN
    /\ impl = "bot"
    /\ th["loop"].pc = "idle"
    /\ conv[u].state = "SOURCE"
    /\ conv' = IF valid THEN [conv EXCEPT ![u] = [state |-> "DEST", source_chat_id |-> src]]
                        ELSE conv
    /\ UNCHANGED <<impl, now, ticks, events, users_data, rules_data, transactions_data,
                   provider, data_lock, th, activations, relayed, last_verify,
                   notified, last_reply, disk>>

(* dest_chat_received: the rule is stored under rule_<seconds>_<user> and
   save_data is called with data_lock held *)
BotDestReceived(u, dst, status) ==
    LET valid == BotIsAdmin(status) IN
    /\ impl = "bot"
    /\ th["loop"].pc = "idle"
    /\ conv[u].state = "DEST"
    /\ IF valid
       THEN /\ CanAcquire
            /\ rules_data' = StoreRule(rules_data,
                                Rule(<<now, u>>, u, conv[u].source_chat_id, dst, now))
            /\ last_reply' = [op |-> "create", user |-> u, result |-> "stored"]
            /\ data_lock' = "loop"
            /\ th' = [th EXCEPT !["loop"] = [Idle EXCEPT !.pc = "save_data", !.user = u]]
       ELSE UNCHANGED <<rules_data, last_reply, data_lock, th>>
    /\ UNCHANGED <<impl, now, ticks, events, users_data, transactions_data, provider,
                   activations, relayed, last_verify, notified, conv, disk>>

(* the handlers of the dialog's states are
   MessageHandler(filters.TEXT | filters.FORWARDED, ...): filters.TEXT takes
   every message that has text, a command such as /cancel included *)
StateHandlerTakes(kind) == kind \in {"text", "command", "forwarded"}

(* /cancel from a user whose dialog is open.  The ConversationHandler offers
   the update to the handlers of the current state first and to the
   fallbacks only when none of them takes it.  source_chat_received and
   dest_chat_received answer "Invalid Format" to a text that is neither
   @name nor a number and stay in their state; cancel_conversation clears
   user_data and ends the dialog. *)
BotCancel(u) ==
    /\ impl = "bot"
    /\ th["loop"].pc = "idle"
    /\ conv[u].state \in {"SOURCE", "DEST"}
    /\ IF StateHandlerTakes("command")
       THEN /\ last_reply' = [op |-> "cancel", user |-> u, result |-> "invalid_format"]
            /\ UNCHANGED conv
       ELSE /\ last_reply' = [op |-> "cancel", user |-> u, result |-> "cancelled"]
            /\ conv' = [conv EXCEPT ![u] = ConvEnd]
    /\ UNCHANGED <<impl, now, ticks, events, users_data, rules_data, transactions_data,
                   provider, data_lock, th, activations, relayed, last_verify,
                   notified, disk>>

DeactivateRemoves(rules, i) ==
    SubSeq(rules, 1, i - 1) \o SubSeq(rules, i + 1, Len(rules))

(* delete_forward_handler: rules_data[rule_id]['is_active'] = False *)
Deactivate(rules, i) == [rules EXCEPT ![i].is_active = FALSE]

(* delete_forward_handler *)
BotDelete(v, id) ==
    /\ impl = "bot"
    /\ events < MaxEvents
    /\ th["loop"].pc = "idle"
    /\ CanAcquire
    /\ events' = events + 1
    /\ IF id \notin RuleIds(rules_data)
       THEN /\ last_reply' = [op |-> "delete", user |-> v, rule_id |-> id,
                              result |-> "not_found"]
            /\ UNCHANGED <<rules_data, data_lock, th>>
       ELSE LET i == RuleIndex(rules_data, id) IN
            IF OwnsRule(rules_data[i], v)
            THEN /\ rules_data' = Deactivate(rules_data, i)
                 /\ last_reply' = [op |-> "delete", user |-> v, rule_id |-> id,
                                   result |-> "deleted"]
                 /\ data_lock' = "loop"
                 /\ th' = [th EXCEPT !["loop"] = [Idle EXCEPT !.pc = "save_data", !.user = v]]
            ELSE /\ last_reply' = [op |-> "delete", user |-> v, rule_id |-> id,
                                   result |-> "not_owner"]
                 /\ UNCHANGED <<rules_data, data_lock, th>>
    /\ UNCHANGED <<impl, now, ticks, users_data, transactions_data, provider,
                   activations, relayed, last_verify, notified, conv, disk>>

(* the process is started again and load_data reads the three files.  A
   shutdown that finds data_lock free writes them first (post_shutdown ->
   save_data); a process with a blocked handler can only be killed, and what
   it held in memory is lost.  Handlers in progress and the conversations
   are gone either way. *)
Restart(graceful) ==
    /\ impl = "bot"
    /\ IF graceful
       THEN /\ data_lock = "free"
            /\ \A t \in Threads : th[t].pc = "idle"
            /\ disk' = [users |-> users_data, rules |-> rules_data,
                        transactions |-> transactions_data]
            /\ UNCHANGED <<users_data, rules_data, transactions_data>>
       ELSE /\ users_data' = disk.users
            /\ rules_data' = disk.rules
            /\ transactions_data' = disk.transactions
            /\ UNCHANGED disk
    /\ data_lock' = "free"
    /\ th' = [t \in Threads |-> Idle]
    /\ conv' = [u \in UserIds |-> ConvEnd]
    /\ UNCHANGED <<impl, now, ticks, events, provider, activations, relayed, last_verify,
                   notified, last_reply>>

(* ---- rules (main.py): add_forward_command only answers ---- *)
MainAddForward(u) ==
    /\ impl = "main"
    /\ events < MaxEvents
    /\ events' = events + 1
    /\ users_data' = IF u \in DOMAIN users_data THEN users_data
                     ELSE Put(users_data, u, NewUser(now))
    /\ last_reply' = [op |-> "add_forward", user |-> u,
                      result |-> IF MayAddRule(users_data'[u], rules_data, u, now)
                                 THEN "ask_source" ELSE "limit"]
    /\ UNCHANGED <<impl, now, ticks, rules_data, transactions_data, provider, data_lock,
                   th, activations, relayed, last_verify, notified, conv, disk>>

Next ==
    \/ \E d \in TickSteps : Tick(d)
    \/ \E ref \in DOMAIN provider : ProviderSettle(ref)
    \/ \E u \in UserIds : MainStart(u)
    \/ \E u \in UserIds, resp \in {"ok", "fail"} : MainPay(u, resp)
    \/ \E v \in UserIds, ref \in AllRefs, resp \in {"ok", "fail"} : MainVerify(v, ref, resp)
    \/ \E t \in Tasks, src \in Sources : MainDispatch(t, src)
    \/ \E t \in Tasks : MainCheck(t)
    \/ \E t \in Tasks, sent \in BOOLEAN : MainNotify(t, sent)
    \/ \E t \in Tasks, outcome \in RelayOutcomes : MainForward(t, outcome)
    \/ \E u \in UserIds : BotStart(u)
    \/ BotGetOrCreateUser
    \/ \E u \in UserIds, plan \in {"monthly", "daily"}, resp \in {"ok", "fail"} : BotPay(u, plan, resp)
    \/ BotPayStore
    \/ \E v \in UserIds, ref \in AllRefs, resp \in {"ok", "fail"} : BotVerify(v, ref, resp)
    \/ BotVerifyPlan
    \/ BotVerifyActivate
    \/ BotVerifyMark
    \/ \E ref \in AllRefs, event \in {"charge.success", "charge.failed"} : Webhook(ref, event)
    \/ WebhookLocked
    \/ \E src \in Sources : BotDispatch(src)
    \/ BotGetRules
    \/ BotCheck
    \/ \E sent \in BOOLEAN : BotNotify(sent)
    \/ \E outcome \in RelayOutcomes : BotForward(outcome)
    \/ BotRecord

Spec == Init /\ [][Next]_vars

(* ---- the rule registry: creation, deletion, dispatch, restart ---- *)

(* the owner of RuleA as found in the store: over quota on the free plan,
   premium, or premium that ran out a day ago (the flag is still set) *)
(* a rule of u1 that the rules file holds under the key of the running
   clock second *)
RuleC == Rule(<<T0, "u1">>, "u1", "S2", "D1", T0)

RulesUser1 ==
    {[NewUser(T0) EXCEPT !.daily_messages = DAILY_LIMIT],
     [NewUser(T0) EXCEPT !.is_premium = TRUE, !.subscription_end = T0 + 2 * Day],
     [NewUser(T0) EXCEPT !.is_premium = TRUE, !.subscription_end = T0 - Day]}

InitRules ==
    /\ impl \in {"bot", "main"}
    /\ now = T0
    /\ ticks = 0
    /\ events = 0
    /\ \E u1 \in RulesUser1, withU2 \in BOOLEAN :
          users_data = IF withU2
                       THEN [u \in {"u1", "u2"} |-> IF u = "u1" THEN u1 ELSE NewUser(T0)]
                       ELSE [u \in {"u1"} |-> u1]
    /\ \E withB \in BOOLEAN, withC \in BOOLEAN :
          /\ (impl = "main" /\ withB) => "u2" \in DOMAIN users_data
          /\ rules_data = <<RuleA>> \o (IF withB THEN <<RuleB>> ELSE <<>>)
                                    \o (IF withC THEN <<RuleC>> ELSE <<>>)
    /\ transactions_data = EmptyMap
    /\ provider = ProviderX
    /\ data_lock = "free"
    /\ th = [t \in Threads |-> Idle]
    /\ activations = EmptyMap
    /\ relayed = EmptyMap
    /\ last_verify = NoVerify
    /\ notified = NoNotice
    /\ conv = [u \in UserIds |-> ConvEnd]
    /\ last_reply = NoReply
    /\ disk = [users |-> users_data, rules |-> rules_data, transactions |-> transactions_data]

NoRule == <<0, "-">>

NextRules ==
    \/ \E d \in TickSteps : Tick(d)
    \/ \E u \in UserIds, via \in {"command", "button"} : BotAddForwardStart(u, via)
    \/ BotGetOrCreateUser
    \/ \E u \in UserIds, src \in Sources, status \in ChatChecks :
          BotSourceReceived(u, src, status)
    \/ \E u \in UserIds, dst \in Dests, status \in ChatChecks :
          BotDestReceived(u, dst, status)
    \/ \E u \in UserIds : BotCancel(u)
    \/ \E v \in UserIds, id \in RuleIds(rules_data) \cup {NoRule} : BotDelete(v, id)
    \/ \E graceful \in BOOLEAN : Restart(graceful)
    \/ \E u \in UserIds : MainAddForward(u)
    \/ \E src \in Sources : BotDispatch(src)
    \/ BotGetRules
    \/ BotCheck
    \/ \E sent \in BOOLEAN : BotNotify(sent)
    \/ \E outcome \in RelayOutcomes : BotForward(outcome)
    \/ BotRecord

SpecRules == InitRules /\ [][NextRules]_vars

(* ---- issuing payments ---- *)

(* the reference of a checkout that u1 asked for in the running clock
   second *)
RunningRef(program, plan) ==
    <<IF program = "main" THEN "SUB" ELSE IF plan = "daily" THEN "DAILY" ELSE "MONTHLY",
      "u1", T0>>

InitPay ==
    /\ impl \in {"bot", "main"}
    /\ now = T0
    /\ ticks = 0
    /\ events = 0
    /\ \E withU2 \in BOOLEAN :
          users_data = [u \in (IF withU2 THEN {"u1", "u2"} ELSE {"u1"}) |-> NewUser(T0)]
    /\ rules_data = <<RuleA>>
    /\ \E plan \in {"none", "monthly", "daily"} :
          /\ plan = "daily" => impl = "bot"
          /\ transactions_data =
                IF plan = "none" THEN EmptyMap
                ELSE [r \in {RunningRef(impl, plan)} |-> Transaction("u1", plan)]
          /\ provider =
                IF plan = "none" THEN ProviderX
                ELSE Put(ProviderX, RunningRef(impl, plan),
                         [status |-> "abandoned", user_id |-> "u1"])
    /\ data_lock = "free"
    /\ th = [t \in Threads |-> Idle]
    /\ activations = EmptyMap
    /\ relayed = EmptyMap
    /\ last_verify = NoVerify
    /\ notified = NoNotice
    /\ conv = [u \in UserIds |-> ConvEnd]
    /\ last_reply = NoReply
    /\ disk = [users |-> users_data, rules |-> rules_data, transactions |-> transactions_data]

NextPay ==
    \/ \E d \in TickSteps : Tick(d)
    \/ \E ref \in DOMAIN provider : ProviderSettle(ref)
    \/ \E u \in UserIds, resp \in {"ok", "nodata", "fail"} : MainPay(u, resp)
    \/ \E u \in UserIds, plan \in {"monthly", "daily"}, resp \in {"ok", "nodata", "fail"} :
          BotPay(u, plan, resp)
    \/ BotPayStore

SpecPay == InitPay /\ [][NextPay]_vars

(* ---- bot.py: the rate limiter of /start and /subscribe ---- *)

(* timedelta.seconds: the seconds component of a non-negative difference,
   the whole days of it left out *)
Seconds(d) == d % Day

RateSteps == {RATE_LIMIT_WINDOW \div 2, RATE_LIMIT_WINDOW, Day}

RateLimitOffByOne(user, t) ==
    IF user.last_command_time # None
       /\ Seconds(t - user.last_command_time) < RATE_LIMIT_WINDOW
    THEN IF user.command_count > MAX_COMMANDS_PER_WINDOW
         THEN [user |-> user, rejected |-> TRUE]
         ELSE [user |-> [user EXCEPT !.command_count = @ + 1], rejected |-> FALSE]
    ELSE [user |-> [user EXCEPT !.last_command_time = t, !.command_count = 1],
          rejected |-> FALSE]

(* the body of rate_limit's wrapper for a user of users_data *)
RateLimit(user, t) ==
    IF user.last_command_time # None
       /\ Seconds(t - user.last_command_time) < RATE_LIMIT_WINDOW
    THEN IF user.command_count >= MAX_COMMANDS_PER_WINDOW
         THEN [user |-> user, rejected |-> TRUE]
         ELSE [user |-> [user EXCEPT !.command_count = @ + 1], rejected |-> FALSE]
    ELSE [user |-> [user EXCEPT !.last_command_time = t, !.command_count = 1],
          rejected |-> FALSE]

(* /start or /subscribe arrives: the wrapper takes data_lock, limits a user
   it knows, releases the lock, and unless it rejected the command, runs it;
   both commands begin with get_or_create_user *)
BotCommand(u, cmd) ==
    /\ impl = "bot"
    /\ events < MaxCommands
    /\ th["loop"].pc = "idle"
    /\ CanAcquire
    /\ events' = events + 1
    /\ LET known == u \in DOMAIN users_data
           r == IF known THEN RateLimit(users_data[u], now)
                ELSE [user |-> NewUser(now), rejected |-> FALSE]
       IN /\ users_data' = IF known THEN Put(users_data, u, r.user) ELSE users_data
          /\ IF r.rejected
             THEN /\ last_reply' = [op |-> cmd, user |-> u, result |-> "slow_down"]
                  /\ UNCHANGED th
             ELSE /\ last_reply' = [op |-> cmd, user |-> u, result |-> "run"]
                  /\ th' = [th EXCEPT !["loop"] =
                                [Idle EXCEPT !.pc = "start_lock", !.user = u]]
    /\ UNCHANGED <<impl, now, ticks, rules_data, transactions_data, provider,
                   data_lock, activations, relayed, last_verify>>
    /\ UNCHANGED <<notified, conv, disk>>

(* the users have used the bot before: each has one command in the window
   that opened at T0 *)
InitRate ==
    /\ impl = "bot"
    /\ now = T0
    /\ ticks = 0
    /\ events = 0
    /\ \E withU2 \in BOOLEAN :
          users_data = [u \in (IF withU2 THEN {"u1", "u2"} ELSE {"u1"}) |->
                            [NewUser(T0) EXCEPT !.command_count = 1]]
    /\ rules_data = <<RuleA>>
    /\ transactions_data = EmptyMap
    /\ provider = ProviderX
    /\ data_lock = "free"
    /\ th = [t \in Threads |-> Idle]
    /\ activations = EmptyMap
    /\ relayed = EmptyMap
    /\ last_verify = NoVerify
    /\ notified = NoNotice
    /\ conv = [u \in UserIds |-> ConvEnd]
    /\ last_reply = NoReply
    /\ disk = [users |-> users_data, rules |-> rules_data, transactions |-> transactions_data]

NextRate ==
    \/ \E d \in RateSteps : Tick(d)
    \/ \E u \in UserIds, cmd \in {"start", "subscribe"} : BotCommand(u, cmd)
    \/ BotGetOrCreateUser

SpecRate == InitRate /\ [][NextRate]_vars

(* ================= properties ================= *)

(* the step in which thread t runs check_message_limit for the rule it is at *)
CheckStep(t) == th[t].pc = "check" /\ th'[t].pc # "check"

CheckedUser(t) == th[t].rules[th[t].idx].user_id

PremiumActiveNow(u) ==
    /\ users_data[u].is_premium
    /\ users_data[u].subscription_end # None
    /\ users_data[u].subscription_end > now

WindowOver(u) == now - users_data[u].last_reset >= Day

CountInWindow(u) == IF WindowOver(u) THEN 0 ELSE users_data[u].daily_messages

(* a thread that waits for data_lock while holding it: it waits forever *)
SelfDeadlocked(t) == data_lock = t /\ th[t].pc \in {"save_data", "activate_lock"}

(* C1: for a free user, a quota call made while fewer than 50 calls were
   counted in the current 24h window returns allowed and counts one more;
   at 50 it returns denied; once the window is 24h old the call restarts it
   at now and, being allowed, leaves the counter at 1. *)
C1_QuotaWindowContract ==
    [][\A t \in Threads :
         (/\ CheckStep(t)
          /\ CheckedUser(t) \in DOMAIN users_data
          /\ ~PremiumActiveNow(CheckedUser(t)))
         => LET u == CheckedUser(t) IN
            /\ CountInWindow(u) < DAILY_LIMIT =>
                  /\ th'[t].pc = "forward"
                  /\ users_data'[u].daily_messages = CountInWindow(u) + 1
            /\ CountInWindow(u) >= DAILY_LIMIT => th'[t].pc = "notify"
            /\ WindowOver(u) =>
                  /\ users_data'[u].last_reset = now
                  /\ users_data'[u].daily_messages = 1]_vars

(* C2 as stated: for a premium-active user the quota call returns allowed
   and leaves dailyMessageCount as it was, whatever its value. *)
C2_PremiumCounterUnchanged ==
    [][\A t \in Threads :
         (/\ CheckStep(t)
          /\ CheckedUser(t) \in DOMAIN users_data
          /\ PremiumActiveNow(CheckedUser(t)))
         => LET u == CheckedUser(t) IN
            /\ th'[t].pc = "forward"
            /\ users_data'[u].daily_messages = users_data[u].daily_messages]_vars

(* C2 amended: for a premium-active user the quota call returns allowed,
   consumes no slot and never increments dailyMessageCount: the counter keeps
   its value, except that a window 24h old is first reset (counter 0,
   window start now). *)
C2_PremiumNeverConsumes ==
    [][\A t \in Threads :
         (/\ CheckStep(t)
          /\ CheckedUser(t) \in DOMAIN users_data
          /\ PremiumActiveNow(CheckedUser(t)))
         => LET u == CheckedUser(t) IN
            /\ th'[t].pc = "forward"
            /\ th'[t].slot = 0
            /\ users_data'[u].daily_messages = CountInWindow(u)
            /\ users_data'[u].last_reset =
                  IF WindowOver(u) THEN now ELSE users_data[u].last_reset]_vars

C2_Witness ==
    \E t \in Threads :
        /\ th[t].pc = "forward"
        /\ th[t].slot = 0
        /\ PremiumActiveNow(th[t].user)
        /\ users_data[th[t].user].daily_messages = DAILY_LIMIT - 1

(* C3: once the Transaction of a reference is Succeeded, a further verify of
   that reference performs no activation (and so cannot move the owner's
   subscriptionEnd). *)
C3_NoReactivation ==
    [][\A ref \in DOMAIN transactions_data :
         transactions_data[ref].status = "success"
         => /\ Count(activations', ref) = Count(activations, ref)
            /\ users_data'[transactions_data[ref].user_id].subscription_end
                 = users_data[transactions_data[ref].user_id].subscription_end]_vars

(* C4: for every reference, the subscription activation that goes with its
   Pending->Succeeded transition is performed at most once. *)
C4_ActivatedAtMostOnce ==
    \A ref \in DOMAIN activations : activations[ref] <= 1

(* C5: a step changes a user's isPremium / subscriptionEnd only as the
   activation for a reference that the provider reports settled with that
   user as payer; a newly created user is not premium. *)
C5_ActivationOnlyForSettledPayer ==
    [][\A u \in DOMAIN users_data' :
         IF u \in DOMAIN users_data
         THEN (\/ users_data'[u].is_premium # users_data[u].is_premium
               \/ users_data'[u].subscription_end # users_data[u].subscription_end)
              => \E ref \in DOMAIN provider :
                    /\ provider[ref].status = "success"
                    /\ provider[ref].user_id = u
                    /\ Count(activations', ref) = Count(activations, ref) + 1
         ELSE /\ ~users_data'[u].is_premium
              /\ users_data'[u].subscription_end = None]_vars

C5_Witness ==
    \E ref \in DOMAIN activations :
        /\ activations[ref] >= 1
        /\ provider[ref].user_id \in DOMAIN users_data
        /\ users_data[provider[ref].user_id].is_premium
        /\ users_data[provider[ref].user_id].subscription_end > now

(* C6: a verify request for a reference that the provider does not report
   settled, or whose payer is not the requester, is refused and changes no
   user, no Transaction and starts no activation: the Transaction stays
   pending without payment date. *)
C6_RefusedVerifyChangesNothing ==
    [][\A v \in UserIds, ref \in AllRefs, resp \in {"ok", "fail"} :
         (/\ MainVerify(v, ref, resp) \/ BotVerify(v, ref, resp)
          /\ ~(/\ ref \in DOMAIN provider
               /\ provider[ref].status = "success"
               /\ provider[ref].user_id = v))
         => /\ users_data' = users_data
            /\ transactions_data' = transactions_data
            /\ activations' = activations
            /\ th' = th
            /\ last_verify'.result \in {"refused_payer", "refused_unsettled"}]_vars

C6_Witness ==
    /\ last_verify.result = "refused_payer"
    /\ last_verify.ref \in DOMAIN transactions_data
    /\ provider[last_verify.ref].user_id # last_verify.user
    /\ transactions_data[last_verify.ref].status = "pending"
    /\ transactions_data[last_verify.ref].payment_date = None
    /\ \A u \in DOMAIN users_data : ~users_data[u].is_premium

(* a verify handler of bot.py that can still take its next step *)
VerifyRunning ==
    /\ th["loop"].pc \in {"verify_plan", "verify_activate", "verify_mark"}
    /\ data_lock = "free"

(* C7: a verify accepted by the provider (settled, payer = requester) for a
   Pending Transaction ends with the Transaction Succeeded and the
   requester's subscriptionEnd = time of the verify + duration of the plan. *)
C7_VerifyCompletes ==
    (/\ last_verify.result = "accepted"
     /\ last_verify.stored = "pending"
     /\ ~VerifyRunning)
    => /\ transactions_data[last_verify.ref].status = "success"
       /\ last_verify.user \in DOMAIN users_data
       /\ users_data[last_verify.user].subscription_end =
             last_verify.time + PlanDuration(transactions_data[last_verify.ref].plan_type)

(* C8: in bot.py, once no dispatch is left that can still record a relay,
   every rule's messagesForwarded equals the number of successful relays
   made through it. *)
C8_NoRelayLost ==
    (impl = "bot" /\ ~(th["loop"].pc = "record" /\ data_lock = "free"))
    => \A i \in 1..Len(rules_data) :
          rules_data[i].messages_forwarded = Count(relayed, rules_data[i].rule_id)

(* C9: the slots handed out by allowed quota calls of one user within one
   window are pairwise distinct, none is above 50, and the user's counter is
   never below a slot it handed out in the current window. *)
C9_QuotaSlotsDistinct ==
    \A t \in Threads :
        th[t].slot > 0
        => /\ th[t].slot <= DAILY_LIMIT
           /\ users_data[th[t].user].last_reset = th[t].win
                 => th[t].slot <= users_data[th[t].user].daily_messages
           /\ \A o \in Threads \ {t} :
                 (th[o].slot > 0 /\ th[o].user = th[t].user /\ th[o].win = th[t].win)
                 => th[o].slot # th[t].slot

C9_Witness ==
    \E t, o \in Tasks :
        /\ t # o
        /\ th[t].pc = "forward" /\ th[t].slot = DAILY_LIMIT
        /\ th[o].pc = "notify" /\ th[o].user = th[t].user
        /\ ~PremiumActiveNow(th[t].user)

(* C10: no thread waits for data_lock while it is the holder. *)
C10_NoSelfDeadlock ==
    \A t \in Threads : ~SelfDeadlocked(t)

(* the rule a dispatching thread is at *)
RuleAt(t) == th[t].rules[th[t].idx]

(* C14: a message for a free user that the quota check allowed is relayed
   (its handler is not blocked before the relay), and a handler is at the
   relay only for an attempt that was granted a slot or for a premium owner:
   the message after the 50th is not relayed. *)
C14_AllowedMessageIsRelayed ==
    \A t \in Threads :
        /\ (th[t].slot > 0 /\ SelfDeadlocked(t))
              => Count(relayed, RuleAt(t).rule_id) > 0
        /\ (th[t].pc \in {"forward", "record"} /\ th[t].slot = 0)
              => users_data[th[t].user].is_premium

(* C15: no user is sent a second limit notice within one quota window. *)
C15_OneNoticePerWindow ==
    \A u \in UserIds : notified[u] # "again"

(* C17: the quota check for a user id without User record is a denial that
   writes nothing, and the denied branch then sends nothing, writes nothing
   and goes on with the next matched rule. *)
C17_UnknownOwnerDenied ==
    [][\A t \in Threads :
         /\ (CheckStep(t) /\ CheckedUser(t) \notin DOMAIN users_data)
               => /\ th'[t].pc = "notify"
                  /\ th'[t].slot = 0
                  /\ users_data' = users_data
                  /\ rules_data' = rules_data
                  /\ data_lock' = data_lock
         /\ (/\ th[t].pc = "notify"
             /\ th[t].user \notin DOMAIN users_data
             /\ th'[t] # th[t])
               => /\ th'[t] = NextRule(th[t])
                  /\ users_data' = users_data
                  /\ notified' = notified
                  /\ relayed' = relayed]_vars

C17_Witness ==
    \E t \in Threads :
        /\ th[t].pc = "notify"
        /\ th[t].idx = 2
        /\ RuleAt(t).user_id = th[t].user
        /\ th[t].user \notin DOMAIN users_data

(* C18: an allowed quota call adds exactly one to dailyMessageCount, and a
   denied attempt of an over-quota user within the window (the denying call
   and the branch that follows it) changes no user state. *)
C18_DenialChangesNothing ==
    [][\A t \in Threads :
         /\ (CheckStep(t) /\ th'[t].slot > 0)
               => users_data'[CheckedUser(t)].daily_messages
                     = CountInWindow(CheckedUser(t)) + 1
         /\ (/\ CheckStep(t)
             /\ CheckedUser(t) \in DOMAIN users_data
             /\ th'[t].pc = "notify"
             /\ ~WindowOver(CheckedUser(t)))
               => users_data' = users_data
         /\ (th[t].pc = "notify" /\ th'[t] # th[t])
               => users_data' = users_data]_vars

(* C19: a dispatcher that still has matched rules to process is never
   blocked for ever at the current one. *)
C19_RemainingRulesProcessed ==
    \A t \in Threads :
        (th[t].idx > 0 /\ th[t].idx < Len(th[t].rules)) => ~SelfDeadlocked(t)

(* a step of the rule-creation gate for user u, in either program *)
AddForwardStep(u) ==
    \/ \E via \in {"command", "button"} : BotAddForwardStart(u, via)
    \/ MainAddForward(u)

(* C11: a delete request for a rule by a user who is not its owner is
   answered "not owner" and leaves every rule, is_active included, as it
   was. *)
C11_NonOwnerDeleteRefused ==
    [][\A v \in UserIds, id \in RuleIds(rules_data) :
         (BotDelete(v, id) /\ rules_data[RuleIndex(rules_data, id)].user_id # v)
         => /\ rules_data' = rules_data
            /\ th' = th
            /\ data_lock' = data_lock
            /\ last_reply'.result = "not_owner"]_vars

C11_Witness ==
    /\ last_reply.op = "delete"
    /\ last_reply.result = "not_owner"
    /\ last_reply.rule_id \in RuleIds(rules_data)
    /\ LET r == rules_data[RuleIndex(rules_data, last_reply.rule_id)] IN
       r.user_id # last_reply.user /\ r.is_active

(* C12: a user on the free plan (not premium-active) who owns an active
   rule and starts the creation workflow gets the free-plan-limit answer, no
   conversation is opened and no rule is added; and a rule stored for a user
   on the free plan leaves that user with one active rule. *)
C12_FreeLimitAtCreation ==
    [][\A u \in UserIds :
         /\ (/\ AddForwardStep(u)
             /\ u \in DOMAIN users_data
             /\ ~PremiumActiveNow(u)
             /\ Len(UserRules(rules_data, u)) >= FREE_RULE_LIMIT)
               => /\ last_reply'.result = "limit"
                  /\ conv' = conv
                  /\ rules_data' = rules_data
         /\ (/\ \E dst \in Dests : BotDestReceived(u, dst, "administrator")
             /\ ~PremiumActiveNow(u))
               => Len(UserRules(rules_data', u)) <= FREE_RULE_LIMIT]_vars

(* C13: a user whose subscription has run out (is_premium still set,
   subscription_end <= now) is treated as a free user: the quota check
   meters the call (denies it at 50, consumes a slot below), and the rule
   gate refuses a second active rule. *)
C13_LapsedTreatedAsFree ==
    [][\A u \in DOMAIN users_data :
         (users_data[u].is_premium /\ ~PremiumActiveNow(u))
         => /\ \A t \in Threads :
                  (CheckStep(t) /\ CheckedUser(t) = u)
                  => IF CountInWindow(u) >= DAILY_LIMIT
                     THEN th'[t].pc = "notify"
                     ELSE th'[t].slot = CountInWindow(u) + 1
            /\ (AddForwardStep(u) /\ Len(UserRules(rules_data, u)) >= FREE_RULE_LIMIT)
                  => last_reply'.result = "limit"]_vars

(* C20: messages_forwarded of a rule never decreases; it grows by one at a
   time, in the dispatcher step that follows a successful relay through that
   rule; a newly stored rule starts at 0. *)
C20_ForwardCountMonotone ==
    [][\A id \in RuleIds(rules_data') :
         LET b == rules_data'[RuleIndex(rules_data', id)].messages_forwarded IN
         IF id \in RuleIds(rules_data)
         THEN LET a == rules_data[RuleIndex(rules_data, id)].messages_forwarded IN
              /\ b >= a
              /\ b > a => /\ b = a + 1
                          /\ th["loop"].pc = "record"
                          /\ RuleAt("loop").rule_id = id
                          /\ Count(relayed, id) >= 1
         ELSE b = 0]_vars

CommandStep(u) ==
    /\ events' = events + 1
    /\ last_reply'.op \in {"start", "subscribe"}
    /\ last_reply'.user = u

(* C16: a rate-limited command of a known user that arrives less than
   RATE_LIMIT_WINDOW seconds after the window opened, when
   MAX_COMMANDS_PER_WINDOW commands are already counted in it, is rejected;
   a rejected command is not run and changes no state; a command that runs
   is counted, either as one more in the open window, never beyond
   MAX_COMMANDS_PER_WINDOW, or as the first of a window that opens now, the
   previous one being over. *)
C16_AtMostMaxCommandsPerWindow ==
    [][\A u \in DOMAIN users_data :
         CommandStep(u) =>
           LET user == users_data[u]
               inWindow == now - user.last_command_time < RATE_LIMIT_WINDOW
           IN /\ (inWindow /\ user.command_count >= MAX_COMMANDS_PER_WINDOW)
                    => last_reply'.result = "slow_down"
              /\ last_reply'.result = "slow_down"
                    => /\ th' = th
                       /\ UNCHANGED <<users_data, rules_data, transactions_data,
                                      disk, data_lock>>
              /\ last_reply'.result = "run"
                    => /\ th'["loop"].pc = "start_lock"
                       /\ users_data'[u].command_count <= MAX_COMMANDS_PER_WINDOW
                       /\ \/ /\ users_data'[u].command_count = user.command_count + 1
                             /\ users_data'[u].last_command_time = user.last_command_time
                          \/ /\ ~inWindow
                             /\ users_data'[u].command_count = 1
                             /\ users_data'[u].last_command_time = now]_vars

C16_Witness ==
    /\ last_reply = [op |-> "start", user |-> "u1", result |-> "slow_down"]
    /\ events = MAX_COMMANDS_PER_WINDOW + 1
    /\ users_data["u1"].command_count = MAX_COMMANDS_PER_WINDOW
    /\ now - users_data["u1"].last_command_time < RATE_LIMIT_WINDOW

(* C30: a rate-limited command of a known user that arrives
   RATE_LIMIT_WINDOW seconds or more after the window opened, however long
   after, runs, and opens a new window: the window starts now and the count
   is 1. *)
C30_ExpiredWindowRestarts ==
    [][\A u \in DOMAIN users_data :
         (CommandStep(u) /\ now - users_data[u].last_command_time >= RATE_LIMIT_WINDOW)
            => /\ last_reply'.result = "run"
               /\ users_data'[u].last_command_time = now
               /\ users_data'[u].command_count = 1]_vars

(* dest_chat_received stores a rule: the handler goes from idle to save_data
   with the reply of a stored rule *)
CreateStep ==
    /\ th["loop"].pc = "idle"
    /\ th'["loop"].pc = "save_data"
    /\ last_reply'.op = "create"

(* C21: a rule creation appends one rule, active and with
   messages_forwarded 0, under an id that no rule of the registry had, and
   leaves every rule that was there as it was. *)
C21_CreationAddsFreshRule ==
    [][CreateStep =>
         /\ Len(rules_data') = Len(rules_data) + 1
         /\ SubSeq(rules_data', 1, Len(rules_data)) = rules_data
         /\ rules_data'[Len(rules_data')].is_active
         /\ rules_data'[Len(rules_data')].messages_forwarded = 0
         /\ rules_data'[Len(rules_data')].rule_id \notin RuleIds(rules_data)]_vars

(* bot.py's generate_payment_link stores the Transaction *)
BotStoreStep ==
    /\ th["loop"].pc = "pay_lock"
    /\ th'["loop"].pc = "save_data"

(* C22: issuing a payment leaves every stored Transaction as it is, and a
   Transaction is stored only under a reference that the store did not hold:
   no two issues persist under the same reference. *)
C22_IssuedReferencesDistinct ==
    [][/\ \A ref \in DOMAIN transactions_data :
             /\ ref \in DOMAIN transactions_data'
             /\ transactions_data'[ref] = transactions_data[ref]
       /\ BotStoreStep => th["loop"].ref \notin DOMAIN transactions_data]_vars

C22_Witness ==
    /\ last_reply.op = "pay"
    /\ last_reply.response = "duplicate"
    /\ \E ref \in DOMAIN transactions_data :
          /\ ref[2] = last_reply.user
          /\ ref[3] = now
          /\ transactions_data[ref].status = "pending"

(* C23: a Transaction enters the store only in an issue that hands the
   checkout URL to its caller; an issue that fails adds none. *)
C23_TransactionOnlyWithUrl ==
    [][\A ref \in DOMAIN transactions_data' \ DOMAIN transactions_data :
          /\ events' = events + 1
          /\ last_reply' = [op |-> "pay", user |-> transactions_data'[ref].user_id,
                            response |-> "ok", result |-> "url"]]_vars

(* C24: the webhook's handling of a settled-payment notification for a
   stored reference does what an accepted verify does: a Pending Transaction
   becomes Succeeded with payment_date now and its owner is activated for its
   plan from now; for a Succeeded Transaction nothing changes. *)
C24_WebhookActsAsVerify ==
    [][LET ref == th["flask"].ref IN
       (/\ th["flask"].pc = "webhook_lock"
        /\ th'["flask"].pc # "webhook_lock"
        /\ ref \in DOMAIN transactions_data)
       => LET tx == transactions_data[ref] IN
          IF tx.status = "pending"
          THEN /\ transactions_data' =
                     [transactions_data EXCEPT ![ref].status = "success",
                                               ![ref].payment_date = now]
               /\ tx.user_id \in DOMAIN users_data
                     => users_data' = [users_data EXCEPT
                                          ![tx.user_id] = Activate(@, tx.plan_type, now)]
          ELSE UNCHANGED <<users_data, transactions_data>>]_vars

(* an activation is performed in this step; its user and plan *)
ActivationStep == activations' # activations

ActivatedUser == IF impl = "main" THEN last_verify'.user ELSE th["loop"].user

ActivatedPlan == IF impl = "main" THEN "monthly" ELSE th["loop"].plan

(* C25: after a monthly activation at time t the user is premium-active at
   every time before t + 30 days (t + 29 days, the last second before
   t + 30 days) and at no time from t + 30 days on (t + 30 days, t + 31
   days). *)
C25_MonthlyCoversThirtyDays ==
    [][(ActivationStep /\ ActivatedPlan = "monthly")
        => LET user == users_data'[ActivatedUser] IN
           /\ \A d \in 0..(MONTHLY_DAYS + 1) :
                  IsActivePremium(user, now + d * Day) <=> d < MONTHLY_DAYS
           /\ IsActivePremium(user, now + MONTHLY_DAYS * Day - 1)]_vars

C25_Witness ==
    \E u \in DOMAIN users_data, ref \in DOMAIN activations :
        /\ users_data[u].is_premium
        /\ users_data[u].subscription_end = now + MONTHLY_DAYS * Day
        /\ ref[1] \in {"SUB", "MONTHLY"} /\ ref[2] = u

(* C26: an activation sets subscription_end to now + the plan's duration,
   whatever it was before: time that was left is not added. *)
C26_ActivationOverwritesEnd ==
    [][ActivationStep
        => users_data'[ActivatedUser].subscription_end = now + PlanDuration(ActivatedPlan)]_vars

C26_Witness ==
    \E ref \in DOMAIN activations :
        /\ activations[ref] = 2
        /\ last_verify.ref = ref
        /\ last_verify.time = now
        /\ now > T0
        /\ users_data[last_verify.user].subscription_end = now + PlanDuration("monthly")

(* a call of get_or_create_user for user u *)
GetOrCreateStep(u) ==
    \/ MainStart(u)
    \/ BotGetOrCreateUser /\ th["loop"].user = u

(* C27: get_or_create_user for an id that has no user stores one that is not
   premium, has no subscription end and zero counters, created now, and
   touches no other user; for an id that has a user it changes nothing in
   the user store. *)
C27_GetOrCreateIdempotent ==
    [][\A u \in UserIds :
         GetOrCreateStep(u)
         => IF u \in DOMAIN users_data
            THEN users_data' = users_data
            ELSE /\ DOMAIN users_data' = DOMAIN users_data \cup {u}
                 /\ \A o \in DOMAIN users_data : users_data'[o] = users_data[o]
                 /\ ~users_data'[u].is_premium
                 /\ users_data'[u].subscription_end = None
                 /\ users_data'[u].daily_messages = 0
                 /\ users_data'[u].command_count = 0
                 /\ users_data'[u].last_reset = now]_vars

C27_Witness ==
    /\ impl = "main"
    /\ events = 2
    /\ "u2" \in DOMAIN users_data \ DOMAIN disk.users
    /\ users_data["u2"].daily_messages = 0
    /\ \A u \in DOMAIN disk.users : users_data[u] = disk.users[u]
    /\ transactions_data = disk.transactions
    /\ last_reply = NoReply /\ last_verify = NoVerify
    /\ \A t \in Threads : th[t].pc = "idle"

(* C28: a delete request changes nothing in the registry but is_active of
   the rule it names, which becomes FALSE: messages_forwarded and every
   other field and rule stay; a request for an id the registry does not hold
   is answered "not found" and changes no rule; and no handler of either
   program takes a rule out of the registry. *)
C28_DeactivationOnlyFlipsActive ==
    [][/\ \A v \in UserIds, id \in RuleIds(rules_data) \cup {NoRule} :
             BotDelete(v, id)
             => IF id \notin RuleIds(rules_data)
                THEN rules_data' = rules_data /\ last_reply'.result = "not_found"
                ELSE /\ Len(rules_data') = Len(rules_data)
                     /\ \A i \in 1..Len(rules_data) :
                           \/ rules_data'[i] = rules_data[i]
                           \/ /\ rules_data[i].rule_id = id
                              /\ rules_data'[i] = [rules_data[i] EXCEPT !.is_active = FALSE]
       /\ ~(\E graceful \in BOOLEAN : Restart(graceful))
             => /\ RuleIds(rules_data) \subseteq RuleIds(rules_data')
                /\ Len(rules_data') >= Len(rules_data)]_vars

C28_Witness ==
    /\ last_reply.op = "delete"
    /\ last_reply.result = "deleted"
    /\ last_reply.rule_id \in RuleIds(rules_data)
    /\ ~rules_data[RuleIndex(rules_data, last_reply.rule_id)].is_active
    /\ Len(rules_data) = Len(disk.rules)

(* C29: /cancel in an open rule-creation dialog, before or after the source
   chat was accepted, ends the dialog and drops the source chat it held, and
   changes no rule. *)
C29_CancelDiscardsDialog ==
    [][\A u \in UserIds :
         BotCancel(u) => /\ conv'[u] = ConvEnd
                         /\ rules_data' = rules_data]_vars

(* C31: in no state has an activation been performed for a reference whose
   stored Transaction is still Pending: the Transaction is Succeeded before
   the subscription is activated. *)
C31_SucceededBeforeActivation ==
    \A ref \in DOMAIN activations \cap DOMAIN transactions_data :
        activations[ref] >= 1 => transactions_data[ref].status = "success"

(* C38: an activation is performed for a reference only when the store
   holds a Transaction under that reference. *)
C38_ActivationNeedsTransaction ==
    [][\A ref \in DOMAIN activations' :
         Count(activations', ref) > Count(activations, ref)
            => ref \in DOMAIN transactions_data]_vars

(* the relay of thread t is over and was not recorded as a success: it
   failed (main.py records nothing either way) *)
RelayDoneStep(t) ==
    /\ th[t].pc = "forward"
    /\ th'[t].pc \notin {"forward", "record"}

(* C32: the step in which a relay fails changes no user and no rule: the
   slot the quota check consumed stays consumed and messages_forwarded is
   not incremented. *)
C32_NoRefundOnFailedRelay ==
    [][\A t \in Threads :
         RelayDoneStep(t) => /\ users_data' = users_data
                             /\ rules_data' = rules_data]_vars

C32_Witness ==
    /\ impl = "main"
    /\ \E t \in Tasks :
          /\ th[t].pc = "check" /\ th[t].idx = 2
          /\ LET owner == th[t].rules[1].user_id IN
             /\ owner \in DOMAIN users_data
             /\ ~users_data[owner].is_premium
             /\ users_data[owner].daily_messages = 1

(* C34: within one handler run every matched rule gets at most one relay
   call: the handler reaches the relay of a rule only from that rule's quota
   check, leaves it for a later rule or for good, never goes back to an
   earlier rule, and its list names no rule twice. *)
C34_AtMostOneRelayPerRule ==
    [][\A t \in Threads :
         /\ (th[t].pc = "forward" /\ th'[t] # th[t])
               => \/ th'[t].pc = "idle"
                  \/ th'[t].pc = "record" /\ th'[t].idx = th[t].idx
                  \/ th'[t].pc = "check" /\ th'[t].idx > th[t].idx
         /\ (th'[t].pc = "forward" /\ th'[t] # th[t])
               => /\ th[t].pc = "check"
                  /\ th'[t].idx = th[t].idx
         /\ (th[t].pc # "idle" /\ th'[t].pc # "idle") => th'[t].idx >= th[t].idx
         /\ \A i, j \in 1..Len(th[t].rules) :
               th[t].rules[i].rule_id = th[t].rules[j].rule_id => i = j]_vars

C34_Witness ==
    /\ impl = "bot"
    /\ th["loop"].pc = "check" /\ th["loop"].idx = 2
    /\ PremiumActiveNow(th["loop"].rules[1].user_id)
    /\ relayed = EmptyMap

(* C37: a user's quota window start moves, and the counter goes down, only
   in a step that finds the window expired, and that step sets the window
   start to now and the counter to 0 (to 1 when the same call consumes a
   slot): the two are never reset one without the other. *)
C37_WindowResetTogether ==
    [][\A u \in DOMAIN users_data \cap DOMAIN users_data' :
         (\/ users_data'[u].last_reset # users_data[u].last_reset
          \/ users_data'[u].daily_messages < users_data[u].daily_messages)
         => /\ WindowExpired(users_data[u], now)
            /\ users_data'[u].last_reset = now
            /\ users_data'[u].daily_messages <= 1]_vars

C37_Witness ==
    \E u \in DOMAIN users_data :
        /\ now > T0
        /\ users_data[u].last_reset = now
        /\ users_data[u].daily_messages <= 1

(* C40: no user's counter is ever above 51, and a relay for an owner who has
   never been premium is made on a slot between 1 and 50 of the owner's
   window (the slots of one window are pairwise distinct, C9): at most 50
   relays per window. *)
C40_AtMostFiftyRelays ==
    /\ \A u \in DOMAIN users_data : users_data[u].daily_messages <= DAILY_LIMIT + 1
    /\ \A t \in Threads :
          (/\ th[t].pc \in {"forward", "record"}
           /\ th[t].user \in DOMAIN users_data
           /\ ~users_data[th[t].user].is_premium)
          => th[t].slot \in 1..DAILY_LIMIT

C40_Witness ==
    \E u \in DOMAIN users_data :
        /\ ~users_data[u].is_premium
        /\ users_data[u].daily_messages = DAILY_LIMIT + 1

(* C35: a rule enters the registry only in the step of the destination
   handler that found the bot administrator or creator of the destination,
   taken in a dialog that holds a source accepted the same way; a dialog
   goes from the source step to the destination step only on such a source;
   a chat that is malformed, unreachable or in which the bot is a plain
   member leaves the dialog at its step and the registry as it was. *)
C35_RuleOnlyAfterBothChecks ==
    [][/\ (RuleIds(rules_data') \ RuleIds(rules_data) # {} \/ CreateStep)
            => \E u \in UserIds, dst \in Dests, status \in {"administrator", "creator"} :
                  /\ BotDestReceived(u, dst, status)
                  /\ conv[u].state = "DEST"
                  /\ conv[u].source_chat_id \in Sources
       /\ \A u \in UserIds :
            (conv'[u].state = "DEST" /\ conv[u].state # "DEST")
               => /\ conv[u].state = "SOURCE"
                  /\ \E src \in Sources, status \in {"administrator", "creator"} :
                        /\ BotSourceReceived(u, src, status)
                        /\ conv'[u].source_chat_id = src
       /\ \A u \in UserIds, status \in ChatChecks \ {"administrator", "creator"} :
            /\ (\E src \in Sources : BotSourceReceived(u, src, status))
                  => (conv' = conv /\ rules_data' = rules_data)
            /\ (\E dst \in Dests : BotDestReceived(u, dst, status))
                  => (conv' = conv /\ rules_data' = rules_data)]_vars

C35_Witness ==
    /\ last_reply.op = "create"
    /\ \E i \in 1..Len(rules_data) :
          /\ rules_data[i].dest_chat_id \in Dests
          /\ rules_data[i].source_chat_id \in Sources
          /\ rules_data[i].user_id = last_reply.user

(* C33: a rule that is active stops being active only in the step of a
   deactivate asked by its owner; the step in which a relay fails, whatever
   the failure, leaves every rule as it was. *)
C33_FailedRelayKeepsRuleActive ==
    [][/\ \A i \in 1..Len(rules_data) :
            (/\ i <= Len(rules_data')
             /\ rules_data[i].is_active
             /\ ~rules_data'[i].is_active)
            => /\ rules_data'[i].rule_id = rules_data[i].rule_id
               /\ BotDelete(rules_data[i].user_id, rules_data[i].rule_id)
       /\ RelayDoneStep("loop") => rules_data' = rules_data]_vars

C33_Witness ==
    /\ impl = "bot"
    /\ th["loop"].pc = "check" /\ th["loop"].idx = 2
    /\ PremiumActiveNow(th["loop"].rules[1].user_id)
    /\ Count(relayed, th["loop"].rules[1].rule_id) = 0
    /\ rules_data[RuleIndex(rules_data, th["loop"].rules[1].rule_id)].is_active

(* C39: no relay is made for a rule whose deactivation was the last thing
   answered to a user. *)
C39_NoRelayAfterDeactivation ==
    [][\A id \in RuleIds(rules_data) :
         Count(relayed', id) > Count(relayed, id)
            => ~(/\ last_reply.op = "delete"
                 /\ last_reply.result = "deleted"
                 /\ last_reply.rule_id = id)]_vars

(* C36: apart from the reload at a restart, a step that changes a user's
   is_premium or subscription_end is an activation of that user, which sets
   the flag and puts the end at now + the plan's duration; every other step
   (quota check, dispatch, rate limiting, rule creation and deactivation,
   payment issue) leaves both as they were, and no step takes the flag from
   a user who has it, lapsed or not. *)
C36_PremiumFieldsOnlyByActivation ==
    [][\/ \E graceful \in BOOLEAN : Restart(graceful)
       \/ \A u \in DOMAIN users_data \cap DOMAIN users_data' :
            /\ (\/ users_data'[u].is_premium # users_data[u].is_premium
                \/ users_data'[u].subscription_end # users_data[u].subscription_end)
               => /\ ActivationStep
                  /\ u = ActivatedUser
                  /\ users_data'[u] = Activate(users_data[u], ActivatedPlan, now)
            /\ users_data[u].is_premium => users_data'[u].is_premium]_vars

(* a lapsed user whose quota check consumed a slot still carries the flag
   and the old end *)
C36_Witness ==
    \E t \in Threads :
        /\ th[t].slot > 0
        /\ th[t].user \in DOMAIN users_data
        /\ users_data[th[t].user].is_premium
        /\ users_data[th[t].user].subscription_end # None
        /\ users_data[th[t].user].subscription_end <= now
====
